---------------------------- MODULE Spec2Model ----------------------------
(*************************************************************************)
(* A model of the YKOATH protocol engine of package yk:                  *)
(*   - New / Close      : reader discovery and session lifecycle         *)
(*   - send             : APDU transceiver with "more data" chaining     *)
(*   - List             : the credential list command                    *)
(*   - write / read     : the TLV codec that send uses                   *)
(* Bytes are the naturals 0..255; byte strings are sequences of bytes.   *)
(* Reader names are sequences of one-character strings.                  *)
(*************************************************************************)
EXTENDS Integers, Sequences, FiniteSets, TLC

VARIABLES
    \* ---- session (OATH struct) and the transport behind it
    card,        \* the card handle (o.card): "none" | "connected" | "disconnected"
    context,     \* the context handle (o.context): "none" | "established" | "released"
    period,      \* o.Period in seconds (0 while there is no session)
    clock,       \* o.Clock   : "none" | "time.Now"
    readers,     \* what context.ListReaders returned to New
    calls,       \* the transport calls made so far, in order
    openRet,     \* what New returned
    closeRet,    \* what Close returned
    \* ---- one call of send
    sendPc,      \* "idle" | "SENDING" | "DONE" | "ERROR" | "PANIC"
    sendArgs,    \* cla, ins, p1, p2, data of the call
    sendBuf,     \* local `send`   : the command buffer
    results,     \* local `results`: the payload accumulator
    code,        \* local `code`   : the last status word
    txLog,       \* the commands handed to card.Transmit by this call
    rxLog,       \* what card.Transmit answered to this call
    readArgs,    \* the buffers handed to read by this call
    sendRet,     \* what send returned
    nSends,      \* calls of send begun on this session
    prevEnd,     \* how the call before this one ended: where it stopped, and
                 \* whether it left payload in its accumulator
    \* ---- one call of List
    listPc,      \* "idle" | "send" | "loop" | "returned" | "PANIC"
    res,         \* local `res`  : the entries send returned
    idx,         \* the position of the range loop in res
    names,       \* local `names`
    listRet,     \* what List returned
    nCalls,      \* calls started on this session
    \* ---- the TLV codec on its own
    codecPc,     \* "in" | "encoded" | "decoded"
    tlvIn,       \* the entries to encode
    tlvBuf,      \* their encoding
    tlvOut       \* what decoding tlvBuf gave

sessionVars == <<card, context, period, clock, readers, calls, openRet, closeRet>>
sendVars    == <<sendPc, sendArgs, sendBuf, results, code, txLog, rxLog, readArgs, sendRet,
                 nSends, prevEnd>>
listVars    == <<listPc, res, idx, names, listRet, nCalls>>
codecVars   == <<codecPc, tlvIn, tlvBuf, tlvOut>>
vars        == <<sessionVars, sendVars, listVars, codecVars>>

-----------------------------------------------------------------------------
(* Bounds of the model *)

\* transmits one call of send may issue before the model stops following it
MaxTransmits == 3
\* calls of send / List followed on one session
MaxCalls == 2
\* readers the transport may report to New
MaxReaders == 2
\* entries in one sequence handed to the codec
MaxEntries == 2

-----------------------------------------------------------------------------
(* Bytes and byte strings *)

RECURSIVE Flatten(_)
\* the concatenation of a sequence of sequences
Flatten(ss) == IF ss = <<>> THEN <<>> ELSE Head(ss) \o Flatten(Tail(ss))

\* s[a..]  (Go: s[a-1:] in 0-based terms), empty when a is past the end
From(s, a) == IF a > Len(s) THEN <<>> ELSE SubSeq(s, a, Len(s))

RECURSIVE Bits(_, _)
\* the w low bits of n, least significant first
Bits(n, w) == IF w = 0 THEN <<>> ELSE <<n % 2>> \o Bits(n \div 2, w - 1)

RECURSIVE FromBits(_)
FromBits(bs) == IF bs = <<>> THEN 0 ELSE Head(bs) + 2 * FromBits(Tail(bs))

\* Go's a & b on bytes
BitAnd(a, b) ==
    LET x == Bits(a, 8)
        y == Bits(b, 8)
    IN  FromBits([i \in 1..8 |-> IF x[i] = 1 /\ y[i] = 1 THEN 1 ELSE 0])

-----------------------------------------------------------------------------
(* Errors: every error value is a record [kind, detail]; detail holds the *)
(* bytes or numbers the error carries (a status word, a tag, a count, the  *)
(* identity of the wrapped transport error).                               *)

Err(kind, detail) == [kind |-> kind, detail |-> detail]
Nil == Err("nil", <<>>)

errFailedToConnect            == "failed to connect to reader"
errFailedToDisconnect         == "failed to disconnect from reader"
errFailedToEstablishContext   == "failed to establish context"
errFailedToListReaders        == "failed to list readers"
errFailedToListSuitableReader == "no suitable reader found"
errFailedToReleaseContext     == "failed to release context"
errFailedToTransmit           == "failed to transmit APDU"
errUnknownTag                 == "unknown tag"
\* a status word returned as the error value (iso7816.Code is an error)
errCode                       == "iso7816.Code"
errTruncatedTLV               == "truncated TLV"

\* the errors the transport (scard) may answer with, by their number
ScardErrors == {\H09, \H17}

-----------------------------------------------------------------------------
(* Protocol constants *)

tagName      == \H71
tagNameList  == \H72
tagTouch     == \H7C

insList          == \HA1
insSelect        == \HA4
insPut           == \H01
insSendRemaining == \HA5

-----------------------------------------------------------------------------
(* The TLV codec (write / read).  Its code is not among the sources; it is *)
(* modelled from the codec section of the specification.                   *)

RECURSIVE BigEndian(_)
\* the bytes of n > 0, most significant first, without leading zero bytes
BigEndian(n) == IF n = 0 THEN <<>> ELSE BigEndian(n \div 256) \o <<n % 256>>

RECURSIVE FromBigEndian(_)
FromBigEndian(bs) ==
    IF bs = <<>> THEN 0
    ELSE FromBigEndian(SubSeq(bs, 1, Len(bs) - 1)) * 256 + bs[Len(bs)]

\* a variant of EncodeLength: always the single-byte form
EncodeLength_OneByte(n) == <<n % 256>>

\* length is a single byte if <= 127, else the first byte has its most
\* significant bit set and counts the big-endian length bytes that follow
EncodeLength(n) ==
    IF n <= 127 THEN <<n>>
    ELSE LET bs == BigEndian(n) IN <<128 + Len(bs)>> \o bs

\* one (tag, length, value) triple
EncodeEntry(e) == <<e.tag>> \o EncodeLength(Len(e.value)) \o e.value

RECURSIVE Encode(_)
\* the concatenation of the triples of the entries es, in order
Encode(es) == IF es = <<>> THEN <<>> ELSE EncodeEntry(Head(es)) \o Encode(Tail(es))

\* write(tag, values...): every value framed under the tag `pad`
write(pad, values) ==
    Encode([i \in 1..Len(values) |-> [tag |-> pad, value |-> values[i]]])

\* the length field that starts at buf[i]: [ok, len, next], next being the
\* position of the first value byte
DecodeLength(buf, i) ==
    IF i > Len(buf) THEN [ok |-> FALSE, len |-> 0, next |-> i]
    ELSE IF buf[i] <= 127 THEN [ok |-> TRUE, len |-> buf[i], next |-> i + 1]
    ELSE LET n == buf[i] - 128 IN
         IF i + n > Len(buf) THEN [ok |-> FALSE, len |-> 0, next |-> i]
         ELSE [ok |-> TRUE, len |-> FromBigEndian(SubSeq(buf, i + 1, i + n)),
               next |-> i + n + 1]

RECURSIVE DecodeFrom(_, _, _)
\* reads a tag, a length and that many value bytes until buf is exhausted;
\* fails when a declared length exceeds the bytes that remain
DecodeFrom(buf, i, acc) ==
    IF i > Len(buf) THEN [entries |-> acc, err |-> Nil]
    ELSE LET l == DecodeLength(buf, i + 1) IN
         IF ~l.ok \/ l.next + l.len - 1 > Len(buf)
         THEN [entries |-> <<>>, err |-> Err(errTruncatedTLV, <<i>>)]
         ELSE DecodeFrom(buf, l.next + l.len,
                         Append(acc, [tag |-> buf[i],
                                      value |-> SubSeq(buf, l.next, l.next + l.len - 1)]))

Decode(buf) == DecodeFrom(buf, 1, <<>>)

\* read(buf): send's decoder; it has a single result, the entries
read(buf) == Decode(buf).entries


-----------------------------------------------------------------------------
(* iso7816.Code: the 2-byte status word.  Package internal/iso7816 is not  *)
(* among the sources; the classification is the one of the specification's *)
(* wire format: 0x61xx = more data, 0x9000 = success, anything else fails. *)

IsMore(c) == c[1] = \H61

IsSuccess(c) == c[1] = \H90 /\ c[2] = \H00

-----------------------------------------------------------------------------
(* The card behind card.Transmit: what it may answer to one transmit *)

\* "work"
NameWork == <<\H77, \H6F, \H72, \H6B>>

\* payload fragments a response may carry
Fragments ==
    { <<>>,
      <<\H72, \H05, \H21>> \o NameWork,     \* one whole name-list entry
      <<\H72, \H05, \H21>>,                 \* the head of that entry
      NameWork,                             \* and the rest of it
      <<\H72, \H02, \H12, \H61>>,           \* another whole entry
      <<\H73, \H01, \H00>>,                 \* an entry with tag 0x73
      <<\H72, \H00>> }                      \* a name-list entry with no value

StatusWords == { <<\H61, \H10>>, <<\H61, \H05>>, <<\H90, \H00>>, <<\H6A, \H82>> }

\* responses: a payload and a status word, or fewer than two bytes
Responses ==
    { f \o sw : f \in Fragments, sw \in StatusWords } \cup { <<>>, <<\H90>> }

\* (res, err) of one card.Transmit
TransmitOutcomes ==
    { [err |-> Nil, res |-> r] : r \in Responses }
        \cup { [err |-> Err("scard", <<n>>), res |-> <<>>] : n \in ScardErrors }

-----------------------------------------------------------------------------
(* send *)

\* the arguments send is called with: List's, and those of the package's
\* other commands (none of them among the sources) by two samples
ListArgs == [cla |-> \H00, ins |-> insList, p1 |-> \H00, p2 |-> \H00, data |-> <<>>]

SendArgs ==
    { ListArgs,
      [cla |-> \H00, ins |-> insSelect, p1 |-> \H04, p2 |-> \H00,
       data |-> << <<\HA0, \H00>> >>],
      [cla |-> \H00, ins |-> insPut, p1 |-> \H00, p2 |-> \H00,
       data |-> << NameWork, <<\H21>> >>] }

\* fmt.Errorf("%w: %w", sentinel, err)
Wrap(sentinel, err) == Err(sentinel, err.detail)

\* a variant of FirstAPDU: the data is left out of the command
FirstAPDU_NoData(a) == <<a.cla, a.ins, a.p1, a.p2>>

\* send = append([]byte{cla, byte(ins), p1, p2}, write(0x00, data...)...)
FirstAPDU(a) == <<a.cla, a.ins, a.p1, a.p2>> \o write(\H00, a.data)

\* a variant of SendRemainingAPDU: the command buffer is not replaced
SendRemainingAPDU_Resend == sendBuf

\* send = []byte{0x00, 0xa5, 0x00, 0x00}
SendRemainingAPDU == <<\H00, insSendRemaining, \H00, \H00>>

\* code = res[len(res)-2:]
StatusWordOf(r) == SubSeq(r, Len(r) - 1, Len(r))

\* results = append(results, res[0:len(res)-2]...)
Accumulate(acc, r) == acc \o SubSeq(r, 1, Len(r) - 2)

\* a variant of OnTransmitError: the transport error is not wrapped
OnTransmitError_DropsCause(err) ==
    [entries |-> <<>>, err |-> Err(errFailedToTransmit, <<>>)]

\* return nil, fmt.Errorf("%w: %w", errFailedToTransmit, err)
OnTransmitError(err) == [entries |-> <<>>, err |-> Wrap(errFailedToTransmit, err)]

\* return read(results), nil
OnSuccess(acc) == [entries |-> read(acc), err |-> Nil]

\* a variant of OnFailure: the status word is wrapped like a transport error
OnFailure_Wrapped(c) == [entries |-> <<>>, err |-> Err(errFailedToTransmit, c)]

\* return nil, code
OnFailure(c) == [entries |-> <<>>, err |-> Err(errCode, c)]

NotReturned == [entries |-> <<>>, err |-> Err("pending", <<>>)]

\* a variant of BeginSend: the accumulator outlives the call
BeginSend_KeepsResults(a) ==
    /\ sendPc' = "SENDING"
    /\ sendArgs' = a
    /\ sendBuf' = FirstAPDU(a)
    /\ results' = results
    /\ code' = <<>>
    /\ txLog' = <<>>
    /\ rxLog' = <<>>
    /\ readArgs' = <<>>
    /\ sendRet' = NotReturned
    /\ nSends' = nSends + 1
    /\ prevEnd' = [pc |-> sendPc, dirty |-> results # <<>>]

\* the locals of send when it enters its loop
BeginSend(a) ==
    /\ sendPc' = "SENDING"
    /\ sendArgs' = a
    /\ sendBuf' = FirstAPDU(a)
    /\ results' = <<>>
    /\ code' = <<>>
    /\ txLog' = <<>>
    /\ rxLog' = <<>>
    /\ readArgs' = <<>>
    /\ sendRet' = NotReturned
    /\ nSends' = nSends + 1
    /\ prevEnd' = [pc |-> sendPc, dirty |-> results # <<>>]

CanCall ==
    /\ card = "connected"
    /\ sendPc \in {"idle", "DONE", "ERROR"}
    /\ listPc \in {"idle", "returned"}
    /\ nCalls < MaxCalls

\* a command other than List calls send
SendCall ==
    /\ CanCall
    /\ \E a \in SendArgs \ {ListArgs} : BeginSend(a)
    /\ nCalls' = nCalls + 1
    /\ listPc' = "idle"
    /\ res' = <<>>
    /\ idx' = 0
    /\ names' = <<>>
    /\ listRet' = [names |-> <<>>, err |-> Err("pending", <<>>)]
    /\ UNCHANGED <<sessionVars, codecVars>>

\* one iteration of send's loop
Transmit ==
    /\ sendPc = "SENDING"
    /\ Len(txLog) < MaxTransmits
    /\ \E out \in TransmitOutcomes :
        /\ txLog' = Append(txLog, sendBuf)
        /\ rxLog' = Append(rxLog, out)
        /\ IF out.err # Nil
           THEN /\ sendPc' = "ERROR"
                /\ sendRet' = OnTransmitError(out.err)
                /\ UNCHANGED <<sendBuf, results, code, readArgs>>
           ELSE IF Len(out.res) < 2
           THEN \* res[len(res)-2:] : slice bounds out of range
                /\ sendPc' = "PANIC"
                /\ UNCHANGED <<sendBuf, results, code, readArgs, sendRet>>
           ELSE LET c   == StatusWordOf(out.res)
                    acc == Accumulate(results, out.res)
                IN  /\ code' = c
                    /\ results' = acc
                    /\ IF IsMore(c)
                       THEN /\ sendBuf' = SendRemainingAPDU
                            /\ sendPc' = "SENDING"
                            /\ UNCHANGED <<readArgs, sendRet>>
                       ELSE IF IsSuccess(c)
                       THEN /\ sendPc' = "DONE"
                            /\ readArgs' = Append(readArgs, acc)
                            /\ sendRet' = OnSuccess(acc)
                            /\ UNCHANGED sendBuf
                       ELSE /\ sendPc' = "ERROR"
                            /\ sendRet' = OnFailure(c)
                            /\ UNCHANGED <<sendBuf, readArgs>>
    \* a panic in send unwinds through List
    /\ listPc' = IF sendPc' = "PANIC" /\ listPc = "send" THEN "PANIC" ELSE listPc
    /\ UNCHANGED <<sendArgs, nSends, prevEnd, res, idx, names, listRet, nCalls,
                   sessionVars, codecVars>>

-----------------------------------------------------------------------------
(* List *)

\* a variant of NameOf: the two masks swapped
NameOf_MasksSwapped(tv) ==
    [Algorithm |-> BitAnd(tv.value[1], \HF0),
     Name      |-> From(tv.value, 2),
     Type      |-> BitAnd(tv.value[1], \H0F)]

\* &Name{Algorithm: Algorithm(tv.value[0] & 0x0f), Name: string(tv.value[1:]),
\*       Type: Type(tv.value[0] & 0xf0)}
NameOf(tv) ==
    [Algorithm |-> BitAnd(tv.value[1], \H0F),
     Name      |-> From(tv.value, 2),
     Type      |-> BitAnd(tv.value[1], \HF0)]

\* fmt.Errorf("%w: %x", errUnknownTag, tv.tag)
UnknownTagError(tv) == Err(errUnknownTag, <<tv.tag>>)

ListPending == [names |-> <<>>, err |-> Err("pending", <<>>)]

\* res, err := o.send(0x00, insList, 0x00, 0x00)
ListCall ==
    /\ CanCall
    /\ BeginSend(ListArgs)
    /\ nCalls' = nCalls + 1
    /\ listPc' = "send"
    /\ res' = <<>>
    /\ idx' = 0
    /\ names' = <<>>
    /\ listRet' = ListPending
    /\ UNCHANGED <<sessionVars, codecVars>>

\* a variant of ListAfterSend: a failed send is issued again
ListAfterSend_Retry ==
    /\ listPc = "send"
    /\ sendPc \in {"DONE", "ERROR"}
    /\ IF sendRet.err # Nil
       THEN /\ BeginSend(ListArgs)
            /\ UNCHANGED <<listPc, listRet, res, idx>>
       ELSE /\ listPc' = "loop"
            /\ res' = sendRet.entries
            /\ idx' = 1
            /\ UNCHANGED <<listRet, sendVars>>
    /\ UNCHANGED <<names, nCalls, sessionVars, codecVars>>

\* if err != nil { return nil, err }, else enter the range loop
ListAfterSend ==
    /\ listPc = "send"
    /\ sendPc \in {"DONE", "ERROR"}
    /\ IF sendRet.err # Nil
       THEN /\ listPc' = "returned"
            /\ listRet' = [names |-> <<>>, err |-> sendRet.err]
            /\ UNCHANGED <<res, idx>>
       ELSE /\ listPc' = "loop"
            /\ res' = sendRet.entries
            /\ idx' = 1
            /\ UNCHANGED listRet
    /\ UNCHANGED <<names, nCalls, sendVars, sessionVars, codecVars>>

\* one iteration of for _, tv := range res
ListStep ==
    /\ listPc = "loop"
    /\ idx <= Len(res)
    /\ LET tv == res[idx] IN
       IF tv.tag = \H72
       THEN IF Len(tv.value) = 0
            THEN \* tv.value[0] : index out of range
                 /\ listPc' = "PANIC"
                 /\ UNCHANGED <<idx, names, listRet>>
            ELSE /\ names' = Append(names, NameOf(tv))
                 /\ idx' = idx + 1
                 /\ UNCHANGED <<listPc, listRet>>
       ELSE /\ listPc' = "returned"
            /\ listRet' = [names |-> <<>>, err |-> UnknownTagError(tv)]
            /\ UNCHANGED <<idx, names>>
    /\ UNCHANGED <<res, nCalls, sendVars, sessionVars, codecVars>>

\* return names, nil
ListReturn ==
    /\ listPc = "loop"
    /\ idx > Len(res)
    /\ listPc' = "returned"
    /\ listRet' = [names |-> names, err |-> Nil]
    /\ UNCHANGED <<res, idx, names, nCalls, sendVars, sessionVars, codecVars>>


-----------------------------------------------------------------------------
(* New and Close *)

Upper == <<"A", "B", "C", "D", "E", "F", "G", "H", "I", "J", "K", "L", "M",
           "N", "O", "P", "Q", "R", "S", "T", "U", "V", "W", "X", "Y", "Z">>
Lower == <<"a", "b", "c", "d", "e", "f", "g", "h", "i", "j", "k", "l", "m",
           "n", "o", "p", "q", "r", "s", "t", "u", "v", "w", "x", "y", "z">>

ToLowerChar(c) ==
    IF \E i \in 1..26 : Upper[i] = c
    THEN Lower[CHOOSE i \in 1..26 : Upper[i] = c]
    ELSE c

\* strings.ToLower
ToLower(s) == [i \in 1..Len(s) |-> ToLowerChar(s[i])]

\* strings.Contains
Contains(s, sub) ==
    \E i \in 0..(Len(s) - Len(sub)) : SubSeq(s, i + 1, i + Len(sub)) = sub

\* "yubikey"
Marker == <<"y", "u", "b", "i", "k", "e", "y">>

\* a variant of Matches: the name is not lowered
Matches_CaseSensitive(reader) == Contains(reader, Marker)

\* strings.Contains(strings.ToLower(reader), "yubikey")
Matches(reader) == Contains(ToLower(reader), Marker)

\* a variant of ScanFrom: the loop keeps the last reader that matches
ScanFrom_Last(rs, i) ==
    LET m == { j \in i..Len(rs) : Matches(rs[j]) }
    IN  IF m = {} THEN 0 ELSE CHOOSE j \in m : \A k \in m : k <= j

RECURSIVE ScanFrom(_, _)
\* for _, reader := range readers: the position of the reader the loop
\* stops at, 0 when it runs to the end
ScanFrom(rs, i) ==
    IF i > Len(rs) THEN 0
    ELSE IF Matches(rs[i]) THEN i
    ELSE ScanFrom(rs, i + 1)

\* the reader names the transport may report
ReaderNames ==
    { <<"A", "C", "S", " ", "R", "e", "a", "d", "e", "r">>,
      <<"Y", "u", "b", "i", "K", "e", "y", " ", "5", " ", "N", "F", "C">>,
      <<"y", "u", "b", "i", "k", "e", "y">>,
      <<"X", " ", "Y", "U", "B", "I", "K", "E", "Y">>,
      <<"Y", "u", "b", "i", " ", "K", "e", "y">>,
      <<"y", "u", "b", "i", "k", "e">> }

RECURSIVE SeqsUpTo(_, _)
\* the sequences over S of length at most n
SeqsUpTo(S, n) ==
    IF n = 0 THEN { <<>> }
    ELSE LET shorter == SeqsUpTo(S, n - 1)
         IN  shorter \cup { Append(q, x) : q \in shorter, x \in S }

ReaderLists == SeqsUpTo(ReaderNames, MaxReaders)

\* the outcomes of one transport call
TransportResults == { Nil } \cup { Err("scard", <<n>>) : n \in ScardErrors }

Call(op, arg, err) == [op |-> op, arg |-> arg, err |-> err]

NotCalled == [session |-> FALSE, err |-> Err("pending", <<>>)]

\* the seconds of 30 * time.Second
DefaultPeriod == 30

\* New, against a transport that answers EstablishContext with est,
\* ListReaders with (rs, lst) and Connect with conn
New ==
    /\ openRet = NotCalled
    /\ \E est \in TransportResults :
        IF est # Nil
        THEN /\ calls' = Append(calls, Call("EstablishContext", <<>>, est))
             /\ openRet' = [session |-> FALSE,
                            err |-> Wrap(errFailedToEstablishContext, est)]
             /\ UNCHANGED <<card, context, period, clock, readers>>
        ELSE \E lst \in TransportResults :
            IF lst # Nil
            THEN /\ calls' = calls \o << Call("EstablishContext", <<>>, Nil),
                                         Call("ListReaders", <<>>, lst) >>
                 /\ context' = "established"
                 /\ openRet' = [session |-> FALSE,
                                err |-> Wrap(errFailedToListReaders, lst)]
                 /\ UNCHANGED <<card, period, clock, readers>>
            ELSE \E rs \in ReaderLists :
                LET i == ScanFrom(rs, 1) IN
                /\ readers' = rs
                /\ context' = "established"
                /\ IF i = 0
                   THEN /\ calls' = calls \o << Call("EstablishContext", <<>>, Nil),
                                                Call("ListReaders", <<>>, Nil) >>
                        /\ openRet' = [session |-> FALSE,
                                       err |-> Err(errFailedToListSuitableReader,
                                                   <<Len(rs)>>)]
                        /\ UNCHANGED <<card, period, clock>>
                   ELSE \E conn \in TransportResults :
                        /\ calls' = calls \o << Call("EstablishContext", <<>>, Nil),
                                                Call("ListReaders", <<>>, Nil),
                                                Call("Connect", rs[i], conn) >>
                        /\ IF conn # Nil
                           THEN /\ openRet' = [session |-> FALSE,
                                               err |-> Wrap(errFailedToConnect, conn)]
                                /\ UNCHANGED <<card, period, clock>>
                           ELSE /\ openRet' = [session |-> TRUE, err |-> Nil]
                                /\ card' = "connected"
                                /\ period' = DefaultPeriod
                                /\ clock' = "time.Now"
    /\ UNCHANGED <<closeRet, sendVars, listVars, codecVars>>

ClosePending == Err("pending", <<>>)

\* Close, against a transport that answers Disconnect with disc and
\* Release with rel
Close ==
    /\ openRet.session
    /\ closeRet = ClosePending
    /\ \E disc \in TransportResults :
        IF disc # Nil
        THEN /\ calls' = Append(calls, Call("Disconnect", <<>>, disc))
             /\ closeRet' = Wrap(errFailedToDisconnect, disc)
             /\ UNCHANGED <<card, context>>
        ELSE \E rel \in TransportResults :
             /\ calls' = calls \o << Call("Disconnect", <<>>, Nil),
                                     Call("Release", <<>>, rel) >>
             /\ card' = "disconnected"
             /\ IF rel # Nil
                THEN /\ closeRet' = Wrap(errFailedToReleaseContext, rel)
                     /\ UNCHANGED context
                ELSE /\ closeRet' = Nil
                     /\ context' = "released"
    /\ UNCHANGED <<period, clock, readers, openRet, sendVars, listVars, codecVars>>

-----------------------------------------------------------------------------
(* The codec on its own: encode a sequence of entries, decode the result *)

\* a value of n bytes
ValueOfLen(n) == [i \in 1..n |-> (7 * i) % 256]

ValueLens == {0, 1, 5, 127, 128, 255, 256}

CodecEntries ==
    { [tag |-> t, value |-> ValueOfLen(n)] :
        t \in {tagName, tagNameList, tagTouch}, n \in ValueLens }

EncodeStep ==
    /\ codecPc = "in"
    /\ tlvBuf' = Encode(tlvIn)
    /\ codecPc' = "encoded"
    /\ UNCHANGED <<tlvIn, tlvOut, sessionVars, sendVars, listVars>>

DecodeStep ==
    /\ codecPc = "encoded"
    /\ tlvOut' = Decode(tlvBuf)
    /\ codecPc' = "decoded"
    /\ UNCHANGED <<tlvIn, tlvBuf, sessionVars, sendVars, listVars>>

-----------------------------------------------------------------------------
(* Specifications *)

NoSession ==
    /\ card = "none"
    /\ context = "none"
    /\ period = 0
    /\ clock = "none"
    /\ readers = <<>>
    /\ calls = <<>>
    /\ openRet = NotCalled
    /\ closeRet = ClosePending

\* the session New returns when the transport reports one YubiKey reader
OpenSession ==
    /\ card = "connected"
    /\ context = "established"
    /\ period = DefaultPeriod
    /\ clock = "time.Now"
    /\ readers = << <<"Y", "u", "b", "i", "K", "e", "y", " ", "5", " ", "N", "F", "C">> >>
    /\ calls = << Call("EstablishContext", <<>>, Nil),
                  Call("ListReaders", <<>>, Nil),
                  Call("Connect", readers[1], Nil) >>
    /\ openRet = [session |-> TRUE, err |-> Nil]
    /\ closeRet = ClosePending

NoCall ==
    /\ sendPc = "idle"
    /\ sendArgs = ListArgs
    /\ sendBuf = <<>>
    /\ results = <<>>
    /\ code = <<>>
    /\ txLog = <<>>
    /\ rxLog = <<>>
    /\ readArgs = <<>>
    /\ sendRet = NotReturned
    /\ nSends = 0
    /\ prevEnd = [pc |-> "idle", dirty |-> FALSE]
    /\ listPc = "idle"
    /\ res = <<>>
    /\ idx = 0
    /\ names = <<>>
    /\ listRet = ListPending
    /\ nCalls = 0

CodecIdle ==
    /\ codecPc = "idle"
    /\ tlvIn = <<>>
    /\ tlvBuf = <<>>
    /\ tlvOut = [entries |-> <<>>, err |-> Nil]

\* commands on an open session
Init == OpenSession /\ NoCall /\ CodecIdle

Next ==
    \/ ListCall
    \/ SendCall
    \/ Transmit
    \/ ListAfterSend
    \/ ListStep
    \/ ListReturn

Spec == Init /\ [][Next]_vars

\* the lifecycle of a session
InitSession == NoSession /\ NoCall /\ CodecIdle

NextSession == New \/ Close

SpecSession == InitSession /\ [][NextSession]_vars

\* the codec
InitCodec ==
    /\ NoSession
    /\ NoCall
    /\ codecPc = "in"
    /\ tlvIn \in SeqsUpTo(CodecEntries, MaxEntries)
    /\ tlvBuf = <<>>
    /\ tlvOut = [entries |-> <<>>, err |-> Nil]

NextCodec == EncodeStep \/ DecodeStep

SpecCodec == InitCodec /\ [][NextCodec]_vars


-----------------------------------------------------------------------------
(* What the card answered, read off the raw bytes of the transmit log *)

Last(q) == q[Len(q)]

HasStatusWord(o) == o.err = Nil /\ Len(o.res) >= 2

AnsweredMore(o) == HasStatusWord(o) /\ o.res[Len(o.res) - 1] = 97

AnsweredSuccess(o) ==
    HasStatusWord(o) /\ o.res[Len(o.res) - 1] = 144 /\ o.res[Len(o.res)] = 0

AnsweredFailure(o) == HasStatusWord(o) /\ ~AnsweredMore(o) /\ ~AnsweredSuccess(o)

PayloadOf(o) == SubSeq(o.res, 1, Len(o.res) - 2)

AllMoreBefore(n) == \A i \in 1..(n - 1) : AnsweredMore(rxLog[i])

-----------------------------------------------------------------------------
(* C1: when the card answers k transmits with MORE-DATA and the next with  *)
(* SUCCESS, send has issued exactly k+1 transmits and stopped, every       *)
(* transmit after the first carried [0x00, 0xA5, 0x00, 0x00] whatever the  *)
(* call's class, instruction, parameters and data, and the buffer handed   *)
(* to the decoder is the concatenation of the k+1 payloads in order.       *)
(* While all answers so far are MORE-DATA, send is still in its loop with  *)
(* that fixed command as the next one to transmit.                         *)
C1_ChainedSend ==
    /\ (rxLog # <<>> /\ AllMoreBefore(Len(rxLog)) /\ AnsweredSuccess(Last(rxLog)))
         => /\ sendPc = "DONE"
            /\ Len(txLog) = Len(rxLog)
            /\ \A i \in 2..Len(txLog) : txLog[i] = <<0, 165, 0, 0>>
            /\ readArgs = << Flatten([i \in 1..Len(rxLog) |-> PayloadOf(rxLog[i])]) >>
    /\ (rxLog # <<>> /\ AllMoreBefore(Len(rxLog) + 1))
         => /\ sendPc = "SENDING"
            /\ sendBuf = <<0, 165, 0, 0>>
            /\ readArgs = <<>>

\* the specification's example: 0x6110, 0x6105, 0x9000, on a call that is
\* not List's, each response carrying payload
C1_Witness ==
    /\ sendPc = "DONE"
    /\ sendArgs.ins = insPut
    /\ Len(txLog) = 3
    /\ StatusWordOf(rxLog[1].res) = <<97, 16>>
    /\ StatusWordOf(rxLog[2].res) = <<97, 5>>
    /\ StatusWordOf(rxLog[3].res) = <<144, 0>>
    /\ \A i \in 1..3 : PayloadOf(rxLog[i]) # <<>>
    /\ PayloadOf(rxLog[1]) # PayloadOf(rxLog[2])

(* C2: a status word that is neither MORE-DATA nor SUCCESS ends the call:  *)
(* it is only ever the last answer of a call (nothing is transmitted after *)
(* it), send has returned it as the error with no entries, and the decoder *)
(* was not invoked.                                                        *)
C2_FailureStatusEndsSend ==
    /\ \A i \in 1..(Len(rxLog) - 1) : ~AnsweredFailure(rxLog[i])
    /\ (rxLog # <<>> /\ AnsweredFailure(Last(rxLog)))
         => /\ sendPc = "ERROR"
            /\ sendRet.entries = <<>>
            /\ sendRet.err.kind = errCode
            /\ sendRet.err.detail =
                 <<Last(rxLog).res[Len(Last(rxLog).res) - 1],
                   Last(rxLog).res[Len(Last(rxLog).res)]>>
            /\ readArgs = <<>>

\* 0x6A82 after a MORE-DATA answer that carried payload
C2_Witness ==
    /\ sendPc = "ERROR"
    /\ Len(rxLog) = 2
    /\ AnsweredMore(rxLog[1])
    /\ PayloadOf(rxLog[1]) # <<>>
    /\ Last(rxLog).res = <<114, 0, 106, 130>>
    /\ sendRet.err = Err(errCode, <<106, 130>>)

(* C8: a transport error of Transmit ends the call: it is only ever the    *)
(* last answer of a call (no retry), and send has returned no entries and  *)
(* the transmit-failure error that wraps that transport error.             *)
C8_TransmitErrorEndsSend ==
    /\ \A i \in 1..(Len(rxLog) - 1) : rxLog[i].err = Nil
    /\ (rxLog # <<>> /\ Last(rxLog).err # Nil)
         => /\ sendPc = "ERROR"
            /\ sendRet.entries = <<>>
            /\ sendRet.err.kind = errFailedToTransmit
            /\ sendRet.err.detail = Last(rxLog).err.detail
            /\ readArgs = <<>>

\* the error strikes a send-remaining transmit
C8_Witness ==
    /\ sendPc = "ERROR"
    /\ Len(rxLog) = 3
    /\ Last(txLog) = <<0, 165, 0, 0>>
    /\ Last(rxLog).err = Err("scard", <<23>>)
    /\ results # <<>>

(* C9: the chaining loop is bounded: send does not stay in its loop for    *)
(* ever on a card that keeps answering MORE-DATA.  The model follows a     *)
(* call for MaxTransmits transmits; a loop with a bound of its own has     *)
(* left SENDING by then.                                                   *)
C9_LoopBounded == sendPc = "SENDING" => Len(txLog) < MaxTransmits

-----------------------------------------------------------------------------
(* Claims about List *)

\* the entries send handed to a List call that has ended
ListEnded == sendPc = "DONE" /\ listPc \in {"returned", "PANIC"}

UnknownTags(es) == { i \in 1..Len(es) : es[i].tag # 114 }

Min(S) == CHOOSE x \in S : \A y \in S : x <= y

(* C4, as stated: the credential built from a name-list entry with value v *)
(* has algorithm v[0] mod 16, type v[0] div 16 (a number 0..15) and name   *)
(* v[1..]; [0x21]+"work" gives algorithm 1, type 2, name "work".           *)
C4_TypeIsHighNibbleNumber ==
    \A i \in 1..Len(names) :
        LET v == res[i].value IN
        /\ names[i] = [Algorithm |-> v[1] % 16,
                       Type      |-> v[1] \div 16,
                       Name      |-> SubSeq(v, 2, Len(v))]
        /\ v = <<33>> \o NameWork
             => names[i] = [Algorithm |-> 1, Type |-> 2, Name |-> NameWork]

(* C4, amended: the credential built from a name-list entry with value v   *)
(* has algorithm v[0] mod 16, type v[0] with its low nibble cleared        *)
(* (16 * (v[0] div 16), the high nibble left in place) and name v[1..];    *)
(* [0x21]+"work" gives algorithm 1, type 0x20 = 32, name "work".  A List   *)
(* that returns without error returns exactly the credentials built.       *)
C4_TypeIsMaskedByte ==
    /\ \A i \in 1..Len(names) :
        LET v == res[i].value IN
        /\ names[i] = [Algorithm |-> v[1] % 16,
                       Type      |-> 16 * (v[1] \div 16),
                       Name      |-> SubSeq(v, 2, Len(v))]
        /\ v = <<33>> \o NameWork
             => names[i] = [Algorithm |-> 1, Type |-> 32, Name |-> NameWork]
    /\ (listPc = "returned" /\ listRet.err = Nil) => listRet.names = names

\* List has returned the credential of [0x21]+"work"
C4_Witness ==
    /\ listPc = "returned"
    /\ listRet.err = Nil
    /\ \E i \in 1..Len(res) :
        /\ res[i] = [tag |-> 114, value |-> <<33>> \o NameWork]
        /\ listRet.names[i] = [Algorithm |-> 1, Type |-> 32, Name |-> NameWork]

(* C5: when an entry of the list response has a tag other than 0x72, List  *)
(* ends by returning the unknown-tag error that carries the first such tag *)
(* and no names.                                                           *)
C5_UnknownTagFailsList ==
    (ListEnded /\ UnknownTags(sendRet.entries) # {})
        => /\ listPc = "returned"
           /\ listRet.names = <<>>
           /\ listRet.err =
                Err(errUnknownTag, <<sendRet.entries[Min(UnknownTags(sendRet.entries))].tag>>)

(* C6: when every entry of the list response has tag 0x72, List ends by    *)
(* returning no error and one credential per entry, the i-th derived from  *)
(* the i-th entry; no entries give an empty sequence and no error.         *)
C6_OneNamePerEntryInOrder ==
    (ListEnded /\ UnknownTags(sendRet.entries) = {})
        => /\ listPc = "returned"
           /\ listRet.err = Nil
           /\ Len(listRet.names) = Len(sendRet.entries)
           /\ \A i \in 1..Len(sendRet.entries) :
                LET v == sendRet.entries[i].value IN
                /\ listRet.names[i].Name = SubSeq(v, 2, Len(v))
                /\ listRet.names[i].Algorithm = v[1] % 16

-----------------------------------------------------------------------------
(* Claims about New and Close *)

CallsOf(op) == SelectSeq(calls, LAMBDA c : c.op = op)

(* C3: every Close that has returned called Context.Release after          *)
(* Disconnect, also when Disconnect failed.                                *)
C3_CloseAlwaysReleases ==
    closeRet # ClosePending
        => \E i, j \in 1..Len(calls) :
             /\ i < j
             /\ calls[i].op = "Disconnect"
             /\ calls[j].op = "Release"

\* a and b are the same character up to the case of a letter
SameLetter(a, b) == a = b \/ \E i \in 1..26 : {a, b} = {Upper[i], Lower[i]}

\* the name holds "yubikey" somewhere, whatever the case of its letters
HoldsMarker(name) ==
    \E off \in 0..(Len(name) - 7) :
        \A j \in 1..7 : SameLetter(name[off + j], Marker[j])

Listed == \E i \in 1..Len(calls) : calls[i].op = "ListReaders" /\ calls[i].err = Nil

(* C7: once the readers are listed, New attempts Connect exactly once, to  *)
(* the first reader in enumeration order whose name holds "yubikey" in any *)
(* letter case, and with a successful Connect returns a session; when no   *)
(* reader matches it attempts no Connect and fails with the                *)
(* no-suitable-reader error that carries the number of readers.            *)
C7_OpenPicksFirstMatch ==
    (openRet # NotCalled /\ Listed)
        => LET m == { i \in 1..Len(readers) : HoldsMarker(readers[i]) } IN
           IF m = {}
           THEN /\ CallsOf("Connect") = <<>>
                /\ openRet = [session |-> FALSE,
                              err |-> Err(errFailedToListSuitableReader, <<Len(readers)>>)]
           ELSE /\ Len(CallsOf("Connect")) = 1
                /\ CallsOf("Connect")[1].arg = readers[Min(m)]
                /\ openRet.session <=> CallsOf("Connect")[1].err = Nil

\* the specification's example: "ACS Reader", then "YubiKey 5 NFC"
C7_Witness ==
    /\ openRet.session
    /\ Len(readers) = 2
    /\ ~HoldsMarker(readers[1])
    /\ readers[2] = <<"Y", "u", "b", "i", "K", "e", "y", " ", "5", " ", "N", "F", "C">>
    /\ CallsOf("Connect")[1].arg = readers[2]

-----------------------------------------------------------------------------
(* Claims about the codec *)

(* C10: decoding the encoding of a sequence of entries gives back exactly  *)
(* that sequence, values longer than 127 bytes included.                   *)
C10_RoundTrip ==
    codecPc = "decoded" => tlvOut = [entries |-> tlvIn, err |-> Nil]

\* two entries of different tags, one short, one with a 256-byte value
C10_Witness ==
    /\ codecPc = "decoded"
    /\ Len(tlvIn) = 2
    /\ tlvIn[1].tag # tlvIn[2].tag
    /\ Len(tlvIn[1].value) = 256
    /\ Len(tlvIn[2].value) = 5
    /\ Len(tlvBuf) = 256 + 4 + 5 + 2
    /\ tlvOut.entries = tlvIn

-----------------------------------------------------------------------------
(* Further claims about send and List *)

\* the payloads of the responses this call has received, in order
PayloadsSoFar ==
    Flatten([i \in 1..Len(rxLog) |->
                IF HasStatusWord(rxLog[i]) THEN PayloadOf(rxLog[i]) ELSE <<>>])

(* C11: when the payload accumulated up to a SUCCESS answer holds a TLV    *)
(* whose declared length exceeds the bytes that remain, send returns the   *)
(* truncation error of the decoder, not a nil error.                       *)
C11_TruncationReported ==
    (sendPc = "DONE" /\ Decode(results).err # Nil)
        => /\ sendRet.err.kind = errTruncatedTLV
           /\ sendRet.err = Decode(results).err

\* the framing of short data values under tag 0x00: tag, length, bytes
PlainTLV(d) == Flatten([i \in 1..Len(d) |-> <<0, Len(d[i])>> \o d[i]])

(* C12: the first transmit of a send call carries class, instruction, p1,  *)
(* p2 and then the data values framed as TLVs under tag 0x00; for List it  *)
(* is [0x00, 0xA1, 0x00, 0x00] alone, and a List call has begun exactly    *)
(* one send.                                                               *)
C12_FirstAPDU ==
    /\ txLog # <<>>
         => txLog[1] = <<sendArgs.cla, sendArgs.ins, sendArgs.p1, sendArgs.p2>>
                          \o PlainTLV(sendArgs.data)
    /\ (listPc # "idle" /\ txLog # <<>>) => txLog[1] = <<0, 161, 0, 0>>
    /\ listPc # "idle" => nSends = nCalls

\* a Put with two data values, chained over two transmits
C12_Witness ==
    /\ sendPc = "DONE"
    /\ Len(txLog) = 2
    /\ txLog[1] = <<0, 1, 0, 0,  0, 4, 119, 111, 114, 107,  0, 1, 33>>
    /\ txLog[2] = <<0, 165, 0, 0>>

(* C15: the accumulator belongs to one call and send changes no session    *)
(* state: at every point of a call the accumulator is the concatenation of *)
(* the payloads received during that call, whatever an earlier call left   *)
(* behind, the buffer decoded and the entries returned are those of that   *)
(* concatenation, and the session's connection, context, clock and period  *)
(* are the ones New set.                                                   *)
C15_SendIsLocal ==
    /\ sendPc # "idle" => results = PayloadsSoFar
    /\ sendPc = "DONE"
         => /\ readArgs = <<PayloadsSoFar>>
            /\ sendRet = [entries |-> Decode(PayloadsSoFar).entries, err |-> Nil]
    /\ card = "connected"
    /\ context = "established"
    /\ clock = "time.Now"
    /\ period = 30

\* a second call succeeds after a call that failed midway through chaining
C15_Witness ==
    /\ nCalls = 2
    /\ prevEnd = [pc |-> "ERROR", dirty |-> TRUE]
    /\ sendPc = "DONE"
    /\ Len(rxLog) = 2
    /\ sendRet.entries = << [tag |-> 114, value |-> <<33>> \o NameWork] >>

(* C16: when the send of a List call fails, List returns that error as it  *)
(* is and no names, and no List call begins a second send.                 *)
C16_ListPassesSendError ==
    /\ (listPc = "returned" /\ sendPc = "ERROR")
         => /\ listRet.names = <<>>
            /\ listRet.err =
                 IF Last(rxLog).err # Nil
                 THEN Err(errFailedToTransmit, Last(rxLog).err.detail)
                 ELSE Err(errCode, SubSeq(Last(rxLog).res, Len(Last(rxLog).res) - 1,
                                          Len(Last(rxLog).res)))
    /\ listPc \in {"send", "loop", "returned"} => nSends = nCalls
    /\ (listPc = "send" /\ sendPc = "ERROR") => sendRet.err # Nil

\* List has returned a failure status word that followed a MORE-DATA answer
C16_Witness ==
    /\ listPc = "returned"
    /\ sendPc = "ERROR"
    /\ Len(rxLog) = 2
    /\ listRet = [names |-> <<>>, err |-> Err(errCode, <<106, 130>>)]

(* C18: send never faults on a response the transport returned without     *)
(* error, responses of 0 or 1 bytes included.                              *)
C18_SendNeverFaults == sendPc # "PANIC"

(* C19: List never faults on an entry send returned, name-list entries     *)
(* with an empty value included.                                           *)
C19_ListNeverFaults == ~(listPc = "PANIC" /\ sendPc = "DONE")

-----------------------------------------------------------------------------
(* Further claims about New and Close *)

(* C13: a Close that has returned called Disconnect and then Release,      *)
(* returned no error exactly when both succeeded, and reported a failed    *)
(* Disconnect as a disconnect failure and a failed Release as a release    *)
(* failure.                                                                *)
C13_CloseReportsBoth ==
    closeRet # ClosePending
        => LET d == CallsOf("Disconnect")
               r == CallsOf("Release")
           IN  /\ Len(d) = 1
               /\ Len(r) = 1
               /\ calls[Len(calls)].op = "Release"
               /\ closeRet = Nil <=> (d[1].err = Nil /\ r[1].err = Nil)
               /\ d[1].err # Nil => closeRet.kind = errFailedToDisconnect
               /\ (d[1].err = Nil /\ r[1].err # Nil)
                    => closeRet = Err(errFailedToReleaseContext, r[1].err.detail)

(* C14: New attempts at most one Connect, to the first matching reader; a  *)
(* failed Connect makes New return the connect-failure error that wraps    *)
(* the transport's, a successful one makes it return a session with that   *)
(* connection, the established context, period 30 (seconds) and the        *)
(* wall clock.                                                             *)
C14_OneConnect ==
    openRet # NotCalled
        => LET cs == CallsOf("Connect")
               m  == { i \in 1..Len(readers) : HoldsMarker(readers[i]) }
           IN  /\ Len(cs) <= 1
               /\ openRet.session => cs # <<>>
               /\ cs # <<>>
                    => /\ m # {}
                       /\ cs[1].arg = readers[Min(m)]
                       /\ IF cs[1].err # Nil
                          THEN /\ openRet = [session |-> FALSE,
                                             err |-> Err(errFailedToConnect, cs[1].err.detail)]
                               /\ card = "none"
                          ELSE /\ openRet = [session |-> TRUE, err |-> Nil]
                               /\ period = 30
                               /\ clock = "time.Now"
                               /\ closeRet = ClosePending
                                    => card = "connected" /\ context = "established"

\* two readers match and the Connect to the first one fails
C14_Witness ==
    /\ openRet.err.kind = errFailedToConnect
    /\ Len(readers) = 2
    /\ HoldsMarker(readers[1])
    /\ HoldsMarker(readers[2])
    /\ readers[1] # readers[2]
    /\ Len(CallsOf("Connect")) = 1

(* C17: when New has returned an error, the context it established is not  *)
(* left established: it is owned by a returned session or released.        *)
C17_NoContextLeak ==
    (openRet # NotCalled /\ ~openRet.session) => context # "established"

=============================================================================
